---- MODULE Spec2Model ----
(***************************************************************************)
(* Model of the PDF collection builder (src/PDF_Augment.py) and of the     *)
(* year-level parser it shares with src/PDFProcessor.py.                   *)
(*                                                                         *)
(* Lengths are in millipoints (1/1000 pt).  Helvetica glyph widths are     *)
(* integers in 1/1000 em, so at 12 pt every measured width is a multiple   *)
(* of 12 millipoints and comparing with a floored limit is exact.          *)
(* Vertical positions (y, line_height) are whole points as in the code.    *)
(* Text is a tuple of one-character strings.                               *)
(***************************************************************************)
EXTENDS Integers, Sequences, FiniteSets, TLC

VARIABLES
    pc,             \* position of the running routine
    filename,       \* argument of get_year_level
    year_aug,       \* result of PDF_Augment.get_year_level
    year_proc,      \* result of PDFProcessor.get_year_level
    words,          \* word-wrap loop: entry.split()
    word_i,         \* word-wrap loop: index of the next word
    current_line,   \* word-wrap loop: words of the line being filled
    lines,          \* word-wrap loop: finished lines
    file_list,      \* create_toc_page: the (title, year) entries
    current_index,  \* create_toc_page: index of the next entry (0-based)
    previous_index, \* create_toc_page: current_index before the last add_toc_page
    start_index,    \* add_toc_page: its argument
    y,              \* add_toc_page: vertical cursor
    toc_page_no,    \* create_toc_page: its nonlocal current_page
    can_page,       \* canvas: what has been drawn on the page not yet shown
    can_pages,      \* canvas: the pages shown so far
    scanned,        \* merge_pdfs_by_type: number of files the scan has visited
    reading_files,  \* merge_pdfs_by_type: (full_path, title, year_level) per file
    writing_files,
    skill_i,        \* merge_pdfs_by_type: iteration of the loop over the two types
    merger,         \* merge_pdfs_by_type: the pages appended to the PdfMerger
    current_page,   \* merge_pdfs_by_type: its page counter
    sorted_files,   \* merge_pdfs_by_type: sorted(files, key=year)
    doc_i,          \* merge_pdfs_by_type: index of the file being merged
    page_i,         \* merge_pdfs_by_type: index i of the page being stamped
    writer,         \* merge_pdfs_by_type: pages of the PdfWriter of that file
    out,            \* the output folder: the collection file of each type
    error,          \* the exception that ended the run, if any
    pdf,            \* argument of extract_title_from_pdf: the file behind pdf_path
    title_out,      \* result of extract_title_from_pdf
    header_args,    \* arguments skill_type, year, title of add_header_footer
    header_text     \* add_header_footer: the header it draws

yearVars == <<filename, year_aug, year_proc>>
titleVars == <<pdf, title_out>>
headerVars == <<header_args, header_text>>
wrapVars == <<words, word_i, current_line, lines>>
tocVars == <<file_list, current_index, previous_index, start_index, y,
             toc_page_no, can_page, can_pages>>
mergeVars == <<scanned, reading_files, writing_files, skill_i, merger, current_page,
               sorted_files, doc_i, page_i, writer, out, error>>
vars == <<pc, yearVars, titleVars, headerVars, wrapVars, tocVars, mergeVars>>

----------------------------------------------------------------------------
(* Bounds of the model *)

MaxNameLen == 7
MaxTitleWords == 3
MaxOrdinal == 2
MaxEntries == 3
MaxFiles == 2
TallWords == 17
HugeWords == 33
MaxTextLen == 5
MaxHeaderTitleLen == 52

----------------------------------------------------------------------------
(* Text helpers *)

SeqsUpTo(S, n) == UNION {[1..k -> S] : k \in 0..n}

Digits == {"0", "1", "2", "3", "4", "5", "6", "7", "8", "9"}

DigitVal(c) ==
    CASE c = "0" -> 0 [] c = "1" -> 1 [] c = "2" -> 2 [] c = "3" -> 3
      [] c = "4" -> 4 [] c = "5" -> 5 [] c = "6" -> 6 [] c = "7" -> 7
      [] c = "8" -> 8 [] c = "9" -> 9

DigitChar(n) ==
    CASE n = 0 -> "0" [] n = 1 -> "1" [] n = 2 -> "2" [] n = 3 -> "3"
      [] n = 4 -> "4" [] n = 5 -> "5" [] n = 6 -> "6" [] n = 7 -> "7"
      [] n = 8 -> "8" [] n = 9 -> "9"

\* str(n) for a non-negative integer
RECURSIVE IntToStr(_)
IntToStr(n) == IF n < 10 THEN <<DigitChar(n)>>
               ELSE IntToStr(n \div 10) \o <<DigitChar(n % 10)>>

UnknownYear == <<"U", "n", "k", "n", "o", "w", "n", " ", "Y", "e", "a", "r">>
GeneralYear == <<"G", "e", "n", "e", "r", "a", "l", " ", "Y", "e", "a", "r">>
YearLabel(n) == <<"Y", "e", "a", "r", " ">> \o IntToStr(n)

----------------------------------------------------------------------------
(* The state of a routine that is not running *)

BlankPage == [stamps |-> <<>>, heading |-> FALSE, entries |-> <<>>, lines |-> <<>>]

WrapIdle ==
    /\ words = <<>>
    /\ word_i = 0
    /\ current_line = <<>>
    /\ lines = <<>>

YearIdle ==
    /\ filename = <<>>
    /\ year_aug = <<>>
    /\ year_proc = <<>>

NoPdf == [readable |-> FALSE, npages |-> 0, text |-> <<>>]

TitleIdle ==
    /\ pdf = NoPdf
    /\ title_out = <<>>

HeaderIdle ==
    /\ header_args = [skill_type |-> <<>>, year |-> <<>>, title |-> <<>>]
    /\ header_text = <<>>

TocIdle ==
    /\ file_list = <<>>
    /\ current_index = 0
    /\ previous_index = 0
    /\ start_index = 0
    /\ y = 0
    /\ toc_page_no = 0
    /\ can_page = BlankPage
    /\ can_pages = <<>>

NoFile == [exists |-> FALSE, data |-> <<>>, trailer |-> FALSE]
NoError == [kind |-> "none"]

MergeIdle ==
    /\ scanned = 0
    /\ reading_files = <<>>
    /\ writing_files = <<>>
    /\ skill_i = 0
    /\ merger = <<>>
    /\ current_page = 0
    /\ sorted_files = <<>>
    /\ doc_i = 0
    /\ page_i = 0
    /\ writer = <<>>
    /\ out = <<NoFile, NoFile>>
    /\ error = NoError

----------------------------------------------------------------------------
(* get_year_level *)

\* re.search(r'(\d{6})', s): position of the leftmost run of six digits,
\* scanning from position i; 0 when there is none
RECURSIVE SearchSixDigits(_, _)
SearchSixDigits(s, i) ==
    IF i + 5 > Len(s) THEN 0
    ELSE IF \A k \in i..(i + 5) : s[k] \in Digits THEN i
    ELSE SearchSixDigits(s, i + 1)

get_year_level_wide(s) ==
    LET m == SearchSixDigits(s, 1) IN
    IF m # 0
    THEN LET year_num == 10 * DigitVal(s[m]) + DigitVal(s[m + 1]) IN
         IF 1 <= year_num /\ year_num <= 9 THEN YearLabel(year_num)
         ELSE UnknownYear
    ELSE GeneralYear

get_year_level(s) ==
    LET m == SearchSixDigits(s, 1) IN
    IF m # 0
    THEN LET year_num == 10 * DigitVal(s[m]) + DigitVal(s[m + 1]) IN
         IF 1 <= year_num /\ year_num <= 7 THEN YearLabel(year_num)
         ELSE UnknownYear
    ELSE GeneralYear

PDFProcessor_get_year_level(s) ==
    LET m == SearchSixDigits(s, 1) IN
    IF m # 0
    THEN LET year_num == 10 * DigitVal(s[m]) + DigitVal(s[m + 1]) IN
         IF 1 <= year_num /\ year_num <= 7 THEN YearLabel(year_num)
         ELSE UnknownYear
    ELSE UnknownYear

----------------------------------------------------------------------------
(* Text measurement: Helvetica 12 as used for the table of contents *)

A4Width == 595275
MarginLeft == 100000
MarginRight == A4Width - 100000
ContentWidth == MarginRight - MarginLeft
FontSize == 12

\* Helvetica advance widths (1/1000 em) of the characters the builder itself
\* puts into an entry: the ordinal, the separator and the year label
CharWidth(c) ==
    CASE c \in Digits -> 556
      [] c \in {".", " "} -> 278
      [] c = "-" -> 333
      [] c \in {"a", "d", "e", "n", "o"} -> 556
      [] c = "k" -> 500
      [] c \in {"i", "l"} -> 222
      [] c = "r" -> 333
      [] c = "t" -> 278
      [] c = "w" -> 722
      [] c = "G" -> 778
      [] c = "U" -> 722
      [] c = "Y" -> 667
      [] c \in {"L", "g"} -> 556
      [] c = "P" -> 667
      [] c = "F" -> 611
      [] c = "R" -> 722
      [] c = "W" -> 944

RECURSIVE StringWidth(_)
StringWidth(s) == IF s = <<>> THEN 0
                  ELSE CharWidth(Head(s)) * FontSize + StringWidth(Tail(s))

SpaceWidth == StringWidth(<<" ">>)

\* A word of an entry: its text and its measured width.  The words of a
\* title are opaque text whose measured width is an input.
Word(s) == [s |-> s, w |-> StringWidth(s)]
TitleWord(k, w) == [s |-> <<"title">> \o IntToStr(k), w |-> w]

\* can.stringWidth(' '.join(line))
RECURSIVE SumWidths(_)
SumWidths(line) == IF line = <<>> THEN 0 ELSE Head(line).w + SumWidths(Tail(line))

LineWidth(line) == IF line = <<>> THEN 0
                   ELSE SumWidths(line) + SpaceWidth * (Len(line) - 1)

\* str.split() of a text without leading, trailing or doubled blanks
RECURSIVE SplitFrom(_, _, _)
SplitFrom(s, i, acc) ==
    IF i > Len(s) THEN (IF acc = <<>> THEN <<>> ELSE <<acc>>)
    ELSE IF s[i] = " " THEN (IF acc = <<>> THEN <<>> ELSE <<acc>>) \o SplitFrom(s, i + 1, <<>>)
    ELSE SplitFrom(s, i + 1, Append(acc, s[i]))

Split(s) == SplitFrom(s, 1, <<>>)

\* f"{current_index + 1}. {title} - {year}".split(); title is the sequence of
\* the measured widths of the title's words
EntryWords(index, title, year) ==
    <<Word(IntToStr(index + 1) \o <<".">>)>>
    \o [k \in 1..Len(title) |-> TitleWord(k, title[k])]
    \o <<Word(<<"-">>)>>
    \o [k \in 1..Len(Split(year)) |-> Word(Split(year)[k])]

----------------------------------------------------------------------------
(* The word-wrap loop of add_toc_page *)

\* one iteration of "for word in words" with the overflowing word kept on
\* the line it overflows
WrapWordOverflow(st, word) ==
    LET test_line == Append(st.current_line, word) IN
    IF LineWidth(test_line) <= ContentWidth
    THEN [current_line |-> test_line, lines |-> st.lines]
    ELSE [current_line |-> <<>>, lines |-> Append(st.lines, test_line)]

\* one iteration with the overflowing word lost at the line break
WrapWordLost(st, word) ==
    LET test_line == Append(st.current_line, word) IN
    IF LineWidth(test_line) <= ContentWidth
    THEN [current_line |-> test_line, lines |-> st.lines]
    ELSE IF st.current_line # <<>>
         THEN [current_line |-> <<>>, lines |-> Append(st.lines, st.current_line)]
         ELSE [current_line |-> <<>>, lines |-> Append(st.lines, <<word>>)]

\* one iteration of "for word in words"
WrapWord(st, word) ==
    LET test_line == Append(st.current_line, word) IN
    IF LineWidth(test_line) <= ContentWidth
    THEN [current_line |-> test_line, lines |-> st.lines]
    ELSE IF st.current_line # <<>>
         THEN [current_line |-> <<word>>, lines |-> Append(st.lines, st.current_line)]
         ELSE [current_line |-> <<>>, lines |-> Append(st.lines, <<word>>)]

\* "if current_line: lines.append(' '.join(current_line))"
WrapFlush(st) ==
    IF st.current_line # <<>> THEN Append(st.lines, st.current_line) ELSE st.lines

RECURSIVE WrapFrom(_, _, _, _)
WrapFrom(ws, i, cl, ls) ==
    IF i > Len(ws) THEN WrapFlush([current_line |-> cl, lines |-> ls])
    ELSE LET st == WrapWord([current_line |-> cl, lines |-> ls], ws[i]) IN
         \* the test makes TLC evaluate this iteration before the next one
         IF Len(st.current_line) + Len(st.lines) >= 0
         THEN WrapFrom(ws, i + 1, st.current_line, st.lines)
         ELSE <<>>

\* the lines of one entry
WrapLines(ws) == WrapFrom(ws, 1, <<>>, <<>>)

----------------------------------------------------------------------------
(* Specification of the word-wrap loop, one word per step *)

TitleWordWidths == {60000, 190008, 380004, 420000}
Titles == SeqsUpTo(TitleWordWidths, MaxTitleWords)
YearLabels == {YearLabel(1), UnknownYear, GeneralYear}

InitWrap ==
    /\ pc = "wrap_loop"
    /\ \E index \in 0..(MaxOrdinal - 1), title \in Titles, year \in YearLabels :
           words = EntryWords(index, title, year)
    /\ word_i = 1
    /\ current_line = <<>>
    /\ lines = <<>>
    /\ YearIdle
    /\ TitleIdle
    /\ HeaderIdle
    /\ TocIdle
    /\ MergeIdle

WrapNextWord ==
    /\ pc = "wrap_loop"
    /\ word_i <= Len(words)
    /\ LET st == WrapWord([current_line |-> current_line, lines |-> lines], words[word_i]) IN
           /\ current_line' = st.current_line
           /\ lines' = st.lines
    /\ word_i' = word_i + 1
    /\ UNCHANGED <<pc, words, yearVars, titleVars, headerVars, tocVars, mergeVars>>

WrapEnd ==
    /\ pc = "wrap_loop"
    /\ word_i > Len(words)
    /\ lines' = WrapFlush([current_line |-> current_line, lines |-> lines])
    /\ pc' = "wrap_done"
    /\ UNCHANGED <<words, word_i, current_line, yearVars, titleVars, headerVars, tocVars, mergeVars>>

NextWrap == WrapNextWord \/ WrapEnd

SpecWrap == InitWrap /\ [][NextWrap]_vars

----------------------------------------------------------------------------
(* create_toc_page *)

line_height == 20
TopY == 700
BottomLimit == 50
EntryGap == 5
start_page == 2

\* lines 115-128 with the test of line 119 left out: an entry that does not
\* fit is deferred even when the page is empty
PlaceEntryDefer(yy, ci, si, ls) ==
    LET needed_height == Len(ls) * line_height + EntryGap IN
    IF yy - needed_height < BottomLimit
    THEN [ret |-> TRUE, y |-> yy, current_index |-> ci, drawn |-> FALSE]
    ELSE [ret |-> FALSE, y |-> yy - Len(ls) * line_height - EntryGap,
          current_index |-> ci + 1, drawn |-> TRUE]

\* lines 115-128 with an entry that does not fit on an empty page left out
PlaceEntrySkip(yy, ci, si, ls) ==
    LET needed_height == Len(ls) * line_height + EntryGap IN
    IF yy - needed_height < BottomLimit /\ ci > si
    THEN [ret |-> TRUE, y |-> yy, current_index |-> ci, drawn |-> FALSE]
    ELSE IF yy - needed_height < BottomLimit
    THEN [ret |-> FALSE, y |-> yy, current_index |-> ci + 1, drawn |-> FALSE]
    ELSE [ret |-> FALSE, y |-> yy - Len(ls) * line_height - EntryGap,
          current_index |-> ci + 1, drawn |-> TRUE]

\* lines 115-128: the entry is deferred to a new page (ret) when it does not
\* fit and the page already holds an entry, and is drawn otherwise
PlaceEntry(yy, ci, si, ls) ==
    LET needed_height == Len(ls) * line_height + EntryGap IN
    IF yy - needed_height < BottomLimit /\ ci > si
    THEN [ret |-> TRUE, y |-> yy, current_index |-> ci, drawn |-> FALSE]
    ELSE [ret |-> FALSE, y |-> yy - Len(ls) * line_height - EntryGap,
          current_index |-> ci + 1, drawn |-> TRUE]

\* canvas.showPage(): the page drawn so far is closed and a blank one begun
ShowPage(pages, page) == Append(pages, page)

\* canvas.save(): a page that holds drawing operations is shown first
Save(pages, page) == IF page # BlankPage THEN ShowPage(pages, page) ELSE pages

\* line 134-136 and 76-91: the outer loop calls add_toc_page, which stamps
\* header and footer with current_page and draws the heading on the call
\* with start_index = 0
TocCallAddPage ==
    /\ pc = "toc_loop"
    /\ current_index < Len(file_list)
    /\ previous_index' = current_index
    /\ start_index' = current_index
    /\ y' = TopY
    /\ can_page' = [can_page EXCEPT !.stamps = Append(@, toc_page_no),
                                    !.heading = @ \/ (current_index = 0)]
    /\ pc' = "toc_page"
    /\ UNCHANGED <<file_list, current_index, toc_page_no, can_pages, yearVars, titleVars, headerVars, wrapVars, mergeVars>>

\* line 92-128: one iteration of the loop of add_toc_page
TocPlaceEntry ==
    /\ pc = "toc_page"
    /\ current_index < Len(file_list)
    /\ LET e == file_list[current_index + 1]
           ls == WrapLines(EntryWords(current_index, e.title, e.year))
           r == PlaceEntry(y, current_index, start_index, ls)
       IN  /\ y' = r.y
           /\ current_index' = r.current_index
           /\ toc_page_no' = IF r.ret THEN toc_page_no + 1 ELSE toc_page_no
           /\ can_page' = IF r.drawn
                          THEN [can_page EXCEPT !.entries = Append(@, current_index + 1),
                                                !.lines = @ \o ls]
                          ELSE can_page
           /\ pc' = IF r.ret THEN "toc_ret" ELSE "toc_page"
    /\ UNCHANGED <<file_list, previous_index, start_index, can_pages, yearVars, titleVars, headerVars, wrapVars, mergeVars>>

\* line 92 and 130: the loop of add_toc_page ends with the list
TocPageEnd ==
    /\ pc = "toc_page"
    /\ current_index >= Len(file_list)
    /\ pc' = "toc_ret"
    /\ UNCHANGED <<tocVars, yearVars, titleVars, headerVars, wrapVars, mergeVars>>

\* line 139-140
TocShowPage ==
    /\ pc = "toc_ret"
    /\ current_index < Len(file_list) /\ current_index > previous_index
    /\ can_pages' = ShowPage(can_pages, can_page)
    /\ can_page' = BlankPage
    /\ pc' = "toc_loop"
    /\ UNCHANGED <<file_list, current_index, previous_index, start_index, y,
                   toc_page_no, yearVars, titleVars, headerVars, wrapVars, mergeVars>>

TocNoShowPage ==
    /\ pc = "toc_ret"
    /\ ~(current_index < Len(file_list) /\ current_index > previous_index)
    /\ pc' = "toc_loop"
    /\ UNCHANGED <<tocVars, yearVars, titleVars, headerVars, wrapVars, mergeVars>>

\* line 134 and 142: the outer loop ends and the canvas is saved
TocSave ==
    /\ pc = "toc_loop"
    /\ current_index >= Len(file_list)
    /\ can_pages' = Save(can_pages, can_page)
    /\ can_page' = BlankPage
    /\ pc' = "toc_done"
    /\ UNCHANGED <<file_list, current_index, previous_index, start_index, y,
                   toc_page_no, yearVars, titleVars, headerVars, wrapVars, mergeVars>>

TocStep == TocCallAddPage \/ TocPlaceEntry \/ TocPageEnd \/ TocShowPage
           \/ TocNoShowPage \/ TocSave

----------------------------------------------------------------------------
(* Specification of create_toc_page over bounded entry lists *)

WideWord == 200004
UntitledWidth == StringWidth(<<"U", "n", "t", "i", "t", "l", "e", "d">>)

\* a title of n words that each take a line of their own
WideTitle(n) == [k \in 1..n |-> WideWord]

TocTitles == {<<>>, <<UntitledWidth>>, WideTitle(TallWords), WideTitle(HugeWords)}
TocEntries == [title : TocTitles, year : {YearLabel(1), UnknownYear}]

InitToc ==
    /\ pc = "toc_loop"
    /\ file_list \in SeqsUpTo(TocEntries, MaxEntries)
    /\ current_index = 0
    /\ previous_index = 0
    /\ start_index = 0
    /\ y = 0
    /\ toc_page_no = start_page
    /\ can_page = BlankPage
    /\ can_pages = <<>>
    /\ YearIdle
    /\ TitleIdle
    /\ HeaderIdle
    /\ WrapIdle
    /\ MergeIdle

NextToc == TocStep

SpecToc == InitToc /\ [][NextToc]_vars

----------------------------------------------------------------------------
(* Specification of the year-level parsers over bounded file names *)

NameAlphabet == {"0", "1", "7", "8", "x"}

Name041203 == <<"a", "_", "0", "4", "1", "2", "0", "3", ".", "p", "d", "f">>
Name099999 == <<"0", "9", "9", "9", "9", "9", ".", "p", "d", "f">>
NameNotes == <<"n", "o", "t", "e", "s", "1", "2", "3", "4", "5", ".", "p", "d", "f">>

FileNames == SeqsUpTo(NameAlphabet, MaxNameLen) \cup {Name041203, Name099999, NameNotes}

InitYear ==
    /\ pc = "year_call"
    /\ filename \in FileNames
    /\ year_aug = <<>>
    /\ year_proc = <<>>
    /\ TitleIdle
    /\ HeaderIdle
    /\ WrapIdle
    /\ TocIdle
    /\ MergeIdle

ParseYear ==
    /\ pc = "year_call"
    /\ year_aug' = get_year_level(filename)
    /\ year_proc' = PDFProcessor_get_year_level(filename)
    /\ pc' = "year_done"
    /\ UNCHANGED <<filename, titleVars, headerVars, wrapVars, tocVars, mergeVars>>

NextYear == ParseYear

SpecYear == InitYear /\ [][NextYear]_vars

----------------------------------------------------------------------------
(* merge_pdfs_by_type *)

SkillTypes == <<"Reading", "Writing">>

\* code points of the characters of the year labels
Ord(c) ==
    CASE c = " " -> 32
      [] c \in Digits -> 48 + DigitVal(c)
      [] c = "G" -> 71 [] c = "U" -> 85 [] c = "Y" -> 89
      [] c = "a" -> 97 [] c = "e" -> 101 [] c = "k" -> 107 [] c = "l" -> 108
      [] c = "n" -> 110 [] c = "o" -> 111 [] c = "r" -> 114 [] c = "w" -> 119

\* a < b for Python str
RECURSIVE StrLess(_, _)
StrLess(a, b) ==
    IF b = <<>> THEN FALSE
    ELSE IF a = <<>> THEN TRUE
    ELSE IF Ord(Head(a)) # Ord(Head(b)) THEN Ord(Head(a)) < Ord(Head(b))
    ELSE StrLess(Tail(a), Tail(b))

\* f goes in front of the elements whose key equals its own
RECURSIVE InsertByYearFront(_, _)
InsertByYearFront(srt, f) ==
    IF srt = <<>> THEN <<f>>
    ELSE IF ~StrLess(Head(srt).year, f.year) THEN <<f>> \o srt
    ELSE <<Head(srt)>> \o InsertByYearFront(Tail(srt), f)

\* f goes behind every element whose key is not greater than its own
RECURSIVE InsertByYear(_, _)
InsertByYear(srt, f) ==
    IF srt = <<>> THEN <<f>>
    ELSE IF StrLess(f.year, Head(srt).year) THEN <<f>> \o srt
    ELSE <<Head(srt)>> \o InsertByYear(Tail(srt), f)

\* sorted(files, key=lambda x: x[2]): a stable sort on the label as a string
RECURSIVE Sorted(_)
Sorted(fs) ==
    IF fs = <<>> THEN <<>>
    ELSE InsertByYear(Sorted(SubSeq(fs, 1, Len(fs) - 1)), fs[Len(fs)])

\* extract_title_from_pdf: the first line of the first page, as the measured
\* widths of its words, or "Untitled" when the file cannot be read or has no page
extract_title_from_pdf(path) ==
    IF path.doc.readable /\ path.doc.npages > 0 THEN path.doc.first_line
    ELSE <<UntitledWidth>>

\* the walked folders, by the keyword their lower-cased path holds
Roots == {"data/Reading", "data/Writing", "data/Other"}
HasReading(root) == root = "data/Reading"
HasWriting(root) == root = "data/Writing"

Name010101 == <<"0", "1", "0", "1", "0", "1", ".", "p", "d", "f">>
Name030101 == <<"0", "3", "0", "1", "0", "1", ".", "p", "d", "f">>
ScanNames == {Name010101, Name030101, Name099999}

\* what a scanned file holds: whether PdfReader can open it, its number of
\* pages and the words of its first line of text
ShortTitle == <<60000>>
DocBodies == {[readable |-> FALSE, npages |-> 0, first_line |-> <<>>],
              [readable |-> TRUE, npages |-> 1, first_line |-> ShortTitle],
              [readable |-> TRUE, npages |-> 2, first_line |-> WideTitle(TallWords)]}

\* a collection left in the output folder by an earlier run
OldFile == [exists |-> TRUE,
            data |-> <<[kind |-> "old", stamps |-> <<1>>, doc |-> 0, page |-> 0, year |-> <<>>]>>,
            trailer |-> TRUE]

\* line 40: the introduction page is stamped with the literal 1
IntroPage == [kind |-> "intro", stamps |-> <<1>>, doc |-> 0, page |-> 0, year |-> <<>>]

FilesOf(i) == IF i = 1 THEN reading_files ELSE writing_files

Init ==
    /\ pc = "scan"
    /\ scanned = 0
    /\ reading_files = <<>>
    /\ writing_files = <<>>
    /\ skill_i = 0
    /\ merger = <<>>
    /\ current_page = 0
    /\ sorted_files = <<>>
    /\ doc_i = 0
    /\ page_i = 0
    /\ writer = <<>>
    /\ out \in {<<NoFile, NoFile>>, <<OldFile, OldFile>>}
    /\ error = NoError
    /\ YearIdle
    /\ TitleIdle
    /\ HeaderIdle
    /\ WrapIdle
    /\ TocIdle

\* line 176-186: one file of the walk
ScanFile ==
    /\ pc = "scan"
    /\ scanned < MaxFiles
    /\ \E root \in Roots, file \in ScanNames, body \in DocBodies :
           LET full_path == [id |-> scanned + 1, root |-> root, file |-> file, doc |-> body]
               year_level == get_year_level(file)
               title == extract_title_from_pdf(full_path)
               entry == [path |-> full_path, title |-> title, year |-> year_level]
           IN  IF HasReading(root)
               THEN /\ reading_files' = Append(reading_files, entry)
                    /\ UNCHANGED writing_files
               ELSE IF HasWriting(root)
               THEN /\ writing_files' = Append(writing_files, entry)
                    /\ UNCHANGED reading_files
               ELSE UNCHANGED <<reading_files, writing_files>>
    /\ scanned' = scanned + 1
    /\ UNCHANGED <<pc, skill_i, merger, current_page, sorted_files, doc_i, page_i,
                   writer, out, error, yearVars, titleVars, headerVars, wrapVars, tocVars>>

\* line 176 and 189-192: the walk ends and the loop over the types begins
ScanEnd ==
    /\ pc = "scan"
    /\ skill_i' = 1
    /\ pc' = "build"
    /\ UNCHANGED <<scanned, reading_files, writing_files, merger, current_page,
                   sorted_files, doc_i, page_i, writer, out, error,
                   yearVars, titleVars, headerVars, wrapVars, tocVars>>

\* line 193-201: a new merger, the counter at 1, the introduction page
BuildIntro ==
    /\ pc = "build"
    /\ merger' = <<IntroPage>>
    /\ current_page' = 1 + 1
    /\ pc' = "build_toc"
    /\ UNCHANGED <<scanned, reading_files, writing_files, skill_i, sorted_files,
                   doc_i, page_i, writer, out, error, yearVars, titleVars, headerVars, wrapVars, tocVars>>

\* line 205-206 and 67-71, 133: toc_list in scan order, create_toc_page called
BuildToc ==
    /\ pc = "build_toc"
    /\ file_list' = [i \in 1..Len(FilesOf(skill_i)) |->
                        [title |-> FilesOf(skill_i)[i].title,
                         year |-> FilesOf(skill_i)[i].year]]
    /\ current_index' = 0
    /\ previous_index' = 0
    /\ start_index' = 0
    /\ y' = 0
    /\ toc_page_no' = start_page
    /\ can_page' = BlankPage
    /\ can_pages' = <<>>
    /\ pc' = "toc_loop"
    /\ UNCHANGED <<mergeVars, yearVars, titleVars, headerVars, wrapVars>>

\* line 207-212: the pages of the table of contents are appended, the counter
\* goes up by one, the files are sorted
AppendToc ==
    /\ pc = "toc_done"
    /\ merger' = merger \o [i \in 1..Len(can_pages) |->
                               [kind |-> "toc", stamps |-> can_pages[i].stamps,
                                doc |-> 0, page |-> 0, year |-> <<>>]]
    /\ current_page' = current_page + 1
    /\ sorted_files' = Sorted(FilesOf(skill_i))
    /\ doc_i' = 1
    /\ pc' = "merge_doc"
    /\ UNCHANGED <<scanned, reading_files, writing_files, skill_i, page_i, writer,
                   out, error, yearVars, titleVars, headerVars, wrapVars, tocVars>>

\* line 214-216: the next file is opened
OpenDoc ==
    /\ pc = "merge_doc"
    /\ doc_i <= Len(sorted_files)
    /\ sorted_files[doc_i].path.doc.readable
    /\ writer' = <<>>
    /\ page_i' = 0
    /\ pc' = "merge_page"
    /\ UNCHANGED <<scanned, reading_files, writing_files, skill_i, merger, current_page,
                   sorted_files, doc_i, out, error, yearVars, titleVars, headerVars, wrapVars, tocVars>>

\* line 215: PdfReader raises on a file it cannot read; nothing catches it
OpenDocFails ==
    /\ pc = "merge_doc"
    /\ doc_i <= Len(sorted_files)
    /\ ~sorted_files[doc_i].path.doc.readable
    /\ error' = [kind |-> "open", doc |-> sorted_files[doc_i].path.id]
    /\ pc' = "crashed"
    /\ UNCHANGED <<scanned, reading_files, writing_files, skill_i, merger, current_page,
                   sorted_files, doc_i, page_i, writer, out, yearVars, titleVars, headerVars, wrapVars, tocVars>>

\* line 219-233: page i is stamped with the counter and added to the writer
StampPage ==
    /\ pc = "merge_page"
    /\ page_i < sorted_files[doc_i].path.doc.npages
    /\ writer' = Append(writer, [kind |-> "content", stamps |-> <<current_page>>,
                                 doc |-> sorted_files[doc_i].path.id, page |-> page_i,
                                 year |-> sorted_files[doc_i].year])
    /\ current_page' = current_page + 1
    /\ page_i' = page_i + 1
    /\ UNCHANGED <<pc, scanned, reading_files, writing_files, skill_i, merger,
                   sorted_files, doc_i, out, error, yearVars, titleVars, headerVars, wrapVars, tocVars>>

\* line 219 and 236-239: the stamped file is appended to the merger
AppendDoc ==
    /\ pc = "merge_page"
    /\ page_i >= sorted_files[doc_i].path.doc.npages
    /\ merger' = merger \o writer
    /\ doc_i' = doc_i + 1
    /\ pc' = "merge_doc"
    /\ UNCHANGED <<scanned, reading_files, writing_files, skill_i, current_page,
                   sorted_files, page_i, writer, out, error, yearVars, titleVars, headerVars, wrapVars, tocVars>>

\* line 242-244: open(output_path, 'wb') creates or truncates the file
OpenOutput ==
    /\ pc = "merge_doc"
    /\ doc_i > Len(sorted_files)
    /\ out' = [out EXCEPT ![skill_i] = [exists |-> TRUE, data |-> <<>>, trailer |-> FALSE]]
    /\ pc' = "write"
    /\ UNCHANGED <<scanned, reading_files, writing_files, skill_i, merger, current_page,
                   sorted_files, doc_i, page_i, writer, error, yearVars, titleVars, headerVars, wrapVars, tocVars>>

\* line 244: open raises (no permission, no such folder); the file is untouched
OpenOutputFails ==
    /\ pc = "merge_doc"
    /\ doc_i > Len(sorted_files)
    /\ error' = [kind |-> "open_output", doc |-> 0]
    /\ pc' = "crashed"
    /\ UNCHANGED <<scanned, reading_files, writing_files, skill_i, merger, current_page,
                   sorted_files, doc_i, page_i, writer, out, yearVars, titleVars, headerVars, wrapVars, tocVars>>

\* line 245-248 and 192: merger.write(f) completes, the file is closed and the
\* loop goes to the next type
WriteCollection ==
    /\ pc = "write"
    /\ out' = [out EXCEPT ![skill_i] = [exists |-> TRUE, data |-> merger, trailer |-> TRUE]]
    /\ IF skill_i < Len(SkillTypes)
       THEN skill_i' = skill_i + 1 /\ pc' = "build"
       ELSE skill_i' = skill_i /\ pc' = "done"
    /\ UNCHANGED <<scanned, reading_files, writing_files, merger, current_page,
                   sorted_files, doc_i, page_i, writer, error, yearVars, titleVars, headerVars, wrapVars, tocVars>>

\* line 244-245: merger.write(f) raises (disk full, I/O error) after k of the
\* pages went to the file; the with statement closes the file as it is
WriteFails ==
    /\ pc = "write"
    /\ \E k \in 0..(Len(merger) - 1) :
           out' = [out EXCEPT ![skill_i] =
                      [exists |-> TRUE, data |-> SubSeq(merger, 1, k), trailer |-> FALSE]]
    /\ error' = [kind |-> "write", doc |-> 0]
    /\ pc' = "crashed"
    /\ UNCHANGED <<scanned, reading_files, writing_files, skill_i, merger, current_page,
                   sorted_files, doc_i, page_i, writer, yearVars, titleVars, headerVars, wrapVars, tocVars>>

Next ==
    \/ ScanFile \/ ScanEnd \/ BuildIntro \/ BuildToc \/ TocStep \/ AppendToc
    \/ OpenDoc \/ OpenDocFails \/ StampPage \/ AppendDoc
    \/ OpenOutput \/ OpenOutputFails \/ WriteCollection \/ WriteFails

Spec == Init /\ [][Next]_vars

----------------------------------------------------------------------------
(* extract_title_from_pdf on the text of the first page *)

Untitled == <<"U", "n", "t", "i", "t", "l", "e", "d">>
Whitespace == {" ", "\t"}

\* text.split('\n'): the pieces between the line feeds, empty ones included;
\* the result always has at least one element
RECURSIVE SplitLinesFrom(_, _, _)
SplitLinesFrom(s, i, acc) ==
    IF i > Len(s) THEN <<acc>>
    ELSE IF s[i] = "\n" THEN <<acc>> \o SplitLinesFrom(s, i + 1, <<>>)
    ELSE SplitLinesFrom(s, i + 1, Append(acc, s[i]))

SplitLines(s) == SplitLinesFrom(s, 1, <<>>)

\* str.strip()
RECURSIVE LStrip(_)
LStrip(s) == IF s # <<>> /\ Head(s) \in Whitespace THEN LStrip(Tail(s)) ELSE s

RECURSIVE RStrip(_)
RStrip(s) == IF s # <<>> /\ s[Len(s)] \in Whitespace
             THEN RStrip(SubSeq(s, 1, Len(s) - 1)) ELSE s

Strip(s) == RStrip(LStrip(s))

\* lines 148-159: PdfReader raising is caught (158) and falls to line 159;
\* otherwise the first piece of the text of page 0, stripped
ExtractTitleText(d) ==
    IF ~d.readable THEN Untitled
    ELSE IF d.npages > 0
         THEN LET ls == SplitLines(d.text) IN
              IF ls # <<>> THEN Strip(ls[1]) ELSE Untitled
         ELSE Untitled

TextAlphabet == {"a", " ", "\n"}
Pdfs == [readable : BOOLEAN, npages : {0, 1}, text : SeqsUpTo(TextAlphabet, MaxTextLen)]

InitTitle ==
    /\ pc = "title_call"
    /\ pdf \in Pdfs
    /\ title_out = <<>>
    /\ YearIdle
    /\ HeaderIdle
    /\ WrapIdle
    /\ TocIdle
    /\ MergeIdle

ExtractTitle ==
    /\ pc = "title_call"
    /\ title_out' = ExtractTitleText(pdf)
    /\ pc' = "title_done"
    /\ UNCHANGED <<pdf, yearVars, headerVars, wrapVars, tocVars, mergeVars>>

NextTitle == ExtractTitle

SpecTitle == InitTitle /\ [][NextTitle]_vars

----------------------------------------------------------------------------
(* The header of add_header_footer *)

HeaderFontSize == 10
HeaderWidthLimit == A4Width - 100000
max_title_length == 50

\* canvas_obj.stringWidth(s) in Helvetica 10, from position i on
RECURSIVE HeaderWidthFrom(_, _)
HeaderWidthFrom(s, i) ==
    IF i > Len(s) THEN 0
    ELSE CharWidth(s[i]) * HeaderFontSize + HeaderWidthFrom(s, i + 1)

HeaderWidth(s) == HeaderWidthFrom(s, 1)

\* f"LPF-{skill_type}-{year}-{title}"
FormatHeader(skill_type, year, title) ==
    <<"L", "P", "F", "-">> \o skill_type \o <<"-">> \o year \o <<"-">> \o title

Ellipsis == <<".", ".", ".">>

\* lines 16-22: the header that line 24 draws
HeaderText(a) ==
    LET first == FormatHeader(a.skill_type, a.year, a.title) IN
    IF HeaderWidth(first) > HeaderWidthLimit
    THEN LET title == IF Len(a.title) > max_title_length
                      THEN SubSeq(a.title, 1, max_title_length) \o Ellipsis
                      ELSE a.title
         IN  FormatHeader(a.skill_type, a.year, title)
    ELSE first

\* titles of a wide letters followed by b narrow ones
HeaderTitle(a, b) == [k \in 1..(a + b) |-> IF k <= a THEN "W" ELSE "i"]
HeaderTitles ==
    {HeaderTitle(a, n - a) : <<a, n>> \in {p \in (0..MaxHeaderTitleLen) \X (0..MaxHeaderTitleLen) : p[1] <= p[2]}}
SkillNames == {<<"R", "e", "a", "d", "i", "n", "g">>, <<"W", "r", "i", "t", "i", "n", "g">>}

InitHeader ==
    /\ pc = "header_call"
    /\ \E skill_type \in SkillNames, year \in {YearLabel(1), GeneralYear},
          title \in HeaderTitles :
           header_args = [skill_type |-> skill_type, year |-> year, title |-> title]
    /\ header_text = <<>>
    /\ YearIdle
    /\ TitleIdle
    /\ WrapIdle
    /\ TocIdle
    /\ MergeIdle

DrawHeader ==
    /\ pc = "header_call"
    /\ header_text' = HeaderText(header_args)
    /\ pc' = "header_done"
    /\ UNCHANGED <<header_args, yearVars, titleVars, wrapVars, tocVars, mergeVars>>

NextHeader == DrawHeader

SpecHeader == InitHeader /\ [][NextHeader]_vars

----------------------------------------------------------------------------
(* Properties *)

\* concatenation of a sequence of sequences
RECURSIVE Concat(_)
Concat(ss) == IF ss = <<>> THEN <<>> ELSE Head(ss) \o Concat(Tail(ss))

\* the run of merge_pdfs_by_type is over
RunEnded == pc \in {"done", "crashed"}

\* the types whose build has begun
BuildsAttempted == {SkillTypes[k] : k \in 1..skill_i}

ReadableCount(fs) == Cardinality({i \in DOMAIN fs : fs[i].path.doc.readable})

\* the rank of a label under the year-parsing comparator: n for 'Year n',
\* behind all of them otherwise
YearRank(year) ==
    IF \E n \in 1..7 : year = YearLabel(n)
    THEN CHOOSE n \in 1..7 : year = YearLabel(n)
    ELSE 8

\* C1: in a collection that has been written, the i-th page carries the page
\* number i, for every i.
C1_AsStated ==
    \A s \in DOMAIN out :
        out[s].trailer =>
            \A i \in DOMAIN out[s].data : out[s].data[i].stamps = <<i>>

\* C2: no two pages appended to a type's collection carry the same page number.
C2_AsStated ==
    \A i, j \in DOMAIN merger :
        i # j => merger[i].stamps # merger[j].stamps

\* C3: the content pages of a collection are in ascending order of the
\* year-parsing comparator: 'Year a' before 'Year b' for a < b, and every
\* parsed year before every unparsed label.
C3_AsStated ==
    \A i, j \in DOMAIN merger :
        (i < j /\ merger[i].kind = "content" /\ merger[j].kind = "content")
            => YearRank(merger[i].year) <= YearRank(merger[j].year)

\* C4: a document that fails to open is skipped and the run continues: no run
\* ends on the failure to open, the table of contents has entries only for the
\* documents that open, and the pages of a built collection that left a
\* document out are numbered 1..k.
C4_AsStated ==
    /\ error.kind # "open"
    /\ pc \in {"toc_loop", "toc_page", "toc_ret", "toc_done", "merge_doc", "merge_page", "write"}
           => Len(file_list) = ReadableCount(FilesOf(skill_i))
    /\ (pc = "write" /\ ReadableCount(FilesOf(skill_i)) < Len(FilesOf(skill_i)))
           => \A i \in DOMAIN merger : merger[i].stamps = <<i>>

\* C5: whatever failure ends the build of one type, the build of the other
\* type is still attempted: a run that is over has begun both builds.
C5_AsStated ==
    RunEnded => BuildsAttempted = {"Reading", "Writing"}

\* C6: once a build has ended, with or without a failure, its collection file
\* is either as it was before the run or the complete collection.
C6_AsStated ==
    \A s \in DOMAIN out :
        (s < skill_i \/ RunEnded) => (out[s] \in {NoFile, OldFile} \/ out[s].trailer)

\* C7: once create_toc_page has an entry to lay out, no page it emits
\* (by showPage or by the final save) has zero entries drawn on it.
C7_NoEmptyTocPage ==
    file_list # <<>> => \A i \in DOMAIN can_pages : can_pages[i].entries # <<>>

\* the layout ended with three pages, the second holding nothing but an
\* entry taller than the page, forced onto it
C7_Witness ==
    /\ pc = "toc_done"
    /\ Len(can_pages) = 3
    /\ Len(can_pages[2].entries) = 1
    /\ Len(can_pages[2].lines) * line_height + EntryGap > TopY - BottomLimit

\* C8: every line the word-wrap loop has produced measures at most the
\* content width, unless it is one single word that is itself wider than the
\* content width.
C8_LinesFit ==
    \A i \in DOMAIN lines :
        \/ LineWidth(lines[i]) <= ContentWidth
        \/ Len(lines[i]) = 1 /\ lines[i][1].w > ContentWidth

\* the loop ended with an over-wide word alone on a line and another line of
\* several words
C8_Witness ==
    /\ pc = "wrap_done"
    /\ \E i \in DOMAIN lines : Len(lines[i]) = 1 /\ lines[i][1].w > ContentWidth
    /\ \E i \in DOMAIN lines : Len(lines[i]) > 1

DrawnLines == Concat([i \in 1..Len(can_pages) |-> can_pages[i].lines])
DrawnEntries == Concat([i \in 1..Len(can_pages) |-> can_pages[i].entries])
FormattedWords ==
    Concat([i \in 1..Len(file_list) |->
               EntryWords(i - 1, file_list[i].title, file_list[i].year)])

\* C9: when create_toc_page ends, the words of the lines drawn on its pages,
\* in drawing order, are the words of the formatted entries 1..n in order, and
\* the entries drawn page after page are 1..n, each exactly once.
C9_TocReconstructs ==
    pc = "toc_done" =>
        /\ Concat(DrawnLines) = FormattedWords
        /\ DrawnEntries = [i \in 1..Len(file_list) |-> i]

\* a layout of several entries over several pages, with a wrapped entry
C9_Witness ==
    /\ pc = "toc_done"
    /\ Len(file_list) >= 3
    /\ Len(can_pages) >= 2
    /\ Len(DrawnLines) > Len(file_list)

HasSixDigitRun(s) ==
    \E i \in 1..(Len(s) - 5) : \A k \in i..(i + 5) : s[k] \in Digits

\* the number written by the first two digits of the leftmost six-digit run
LeadingPair(s) ==
    LET i == CHOOSE j \in 1..(Len(s) - 5) :
                 /\ \A k \in j..(j + 5) : s[k] \in Digits
                 /\ \A h \in 1..(j - 1) : \E k \in h..(h + 5) : s[k] \notin Digits
    IN  10 * DigitVal(s[i]) + DigitVal(s[i + 1])

ParsedYear(s) == HasSixDigitRun(s) /\ LeadingPair(s) \in 1..7

YearExamples ==
    /\ filename = Name041203 => year_aug = YearLabel(4) /\ year_proc = YearLabel(4)
    /\ filename = Name099999 => year_aug = UnknownYear /\ year_proc = UnknownYear

\* C10 as stated: both parsers give 'Year n' exactly for a leading pair n in
\* 1..7 of the first six-digit run, and 'Unknown Year' otherwise, also for a
\* name with no six-digit run.
C10_AsStated ==
    pc = "year_done" =>
        /\ YearExamples
        /\ \A r \in {year_aug, year_proc} :
               r = IF ParsedYear(filename) THEN YearLabel(LeadingPair(filename))
                   ELSE UnknownYear

\* C10 (amended): both parsers give 'Year n' exactly for a leading pair n in
\* 1..7 of the first six-digit run and 'Unknown Year' for any other leading
\* pair; for a name with no six-digit run PDFProcessor.get_year_level gives
\* 'Unknown Year' and PDF_Augment.get_year_level gives 'General Year'.
C10_YearLevel ==
    pc = "year_done" =>
        /\ YearExamples
        /\ year_proc = IF ParsedYear(filename) THEN YearLabel(LeadingPair(filename))
                       ELSE UnknownYear
        /\ year_aug = IF ParsedYear(filename) THEN YearLabel(LeadingPair(filename))
                      ELSE IF HasSixDigitRun(filename) THEN UnknownYear
                      ELSE GeneralYear

\* a name with no six-digit run has been parsed by both
C10_Witness ==
    /\ pc = "year_done"
    /\ filename = NameNotes
    /\ year_aug = GeneralYear
    /\ year_proc = UnknownYear

\* C11: of two documents of a type with equal sub-class, the one scanned
\* earlier (the smaller scan ordinal) has its content pages first.
C11_StableSort ==
    \A i, j \in DOMAIN merger :
        (/\ merger[i].kind = "content" /\ merger[j].kind = "content"
         /\ merger[i].year = merger[j].year
         /\ merger[i].doc < merger[j].doc)
            => i < j

\* both of two documents with the same sub-class have been appended
C11_Witness ==
    \E i, j \in DOMAIN merger :
        /\ merger[i].kind = "content" /\ merger[j].kind = "content"
        /\ merger[i].year = merger[j].year
        /\ merger[i].doc # merger[j].doc

\* C14: the entry with ordinal n of the table of contents is the n-th
\* document of the sorted sequence that the merger appends.
C14_AsStated ==
    pc \in {"merge_doc", "merge_page", "write"} =>
        /\ Len(file_list) = Len(sorted_files)
        /\ \A n \in DOMAIN sorted_files :
               /\ file_list[n].title = sorted_files[n].title
               /\ file_list[n].year = sorted_files[n].year

\* the first line of the text of the first page, whitespace-trimmed
FirstLine(d) == Strip(SplitLines(d.text)[1])

\* C12: the title is the trimmed first line of the first page's text when that
\* line is not blank; it is 'Untitled' when the file cannot be read, has no
\* page, or its text is empty or begins with a blank line; it is never empty.
C12_AsStated ==
    pc = "title_done" =>
        /\ title_out # <<>>
        /\ title_out = IF pdf.readable /\ pdf.npages > 0 /\ FirstLine(pdf) # <<>>
                       THEN FirstLine(pdf)
                       ELSE Untitled

\* C13: when the header 'LPF-{skill}-{year}-{title}' measures more than the
\* content width, the header drawn has the title cut to a prefix of at most
\* max_title_length characters followed by '...' and measures at most the
\* content width; when it fits, the header drawn is the header unchanged.
C13_AsStated ==
    pc = "header_done" =>
        LET first == FormatHeader(header_args.skill_type, header_args.year, header_args.title) IN
        IF HeaderWidth(first) > HeaderWidthLimit
        THEN /\ \E k \in 0..max_title_length :
                    /\ k < Len(header_args.title)
                    /\ header_text = FormatHeader(header_args.skill_type, header_args.year,
                                                  SubSeq(header_args.title, 1, k) \o Ellipsis)
             /\ HeaderWidth(header_text) <= HeaderWidthLimit
        ELSE header_text = first

\* what create_toc_page has left to do: first the entries after the start of
\* the page being laid out, then the entries after the one being placed, then
\* the position inside the loops
TocWork ==
    LET n == Len(file_list)
        k == 2 * n + 3
    IN  CASE pc = "toc_loop" -> k * (n - current_index) + k - 1
          [] pc = "toc_page" -> k * (n - start_index) + 2 * (n - current_index) + 1
          [] pc = "toc_ret"  -> k * (n - start_index) + 2 * (n - current_index)
          [] OTHER -> 0

\* C15: every call of add_toc_page returns an index greater than its
\* start_index, every step of create_toc_page lessens the work that is left,
\* which is never negative, and create_toc_page ends with every entry placed.
C15_Terminates ==
    /\ [](pc = "toc_ret" => current_index > start_index)
    /\ [](TocWork >= 0 /\ (pc = "toc_done" => current_index = Len(file_list)))
    /\ [][TocWork' < TocWork]_vars

\* add_toc_page has returned after forcing onto its empty page one entry that
\* crosses the bottom margin
C15_Witness ==
    /\ pc = "toc_ret"
    /\ current_index = start_index + 1
    /\ y < BottomLimit

====
